---- MODULE Spec2Model ----
(***************************************************************************)
(* ClearML lifecycle callbacks of the YOLO trainer                         *)
(* (src/ultralytics/yolo/utils/callbacks/clearml.py).                      *)
(*                                                                         *)
(* File names are sequences of one-character strings, so that the regular  *)
(* expression search, str.replace, the glob patterns and Path.stem are     *)
(* computed character by character, the way the Python code computes them. *)
(***************************************************************************)
EXTENDS Integers, Sequences, FiniteSets

VARIABLES
    clearml,        \* module global `clearml` after load: "ok", or why it is None
    current_task,   \* Task.current_task(): 0 is None, n > 0 the n-th session
    tasks,          \* number of tracking sessions created so far
    epoch,          \* trainer.epoch
    fit_done,       \* the host has already fired on_fit_epoch_end in this epoch
    reported,       \* model-info name -> epochs at which it was reported
    save_dir,       \* names of the files present in trainer.save_dir
    handler,        \* event of the last invocation ("none": nothing invoked yet)
    via,            \* "callbacks": through the exported mapping, "direct": the function itself
    ran,            \* the handler's body was executed
    entry_task,     \* current_task when the last invocation started
    save_interval,  \* trainer.args.save_interval read by the last on_model_save
    results_dict,   \* trainer.validator.metrics.results_dict read by the last on_train_end
    calls,          \* tracking calls completed by the last invocation, in order
    raised          \* exception that left the last invocation ("none": returned)

vars == <<clearml, current_task, tasks, epoch, fit_done, reported, save_dir,
          handler, via, ran, entry_task, save_interval, results_dict, calls, raised>>

(***************************************************************************)
(* Bounds                                                                  *)
(***************************************************************************)
MaxEpoch == 5
MaxTasks == 2
MaxFiles == 2
MaxPieces == 2
MaxInterval == 5
MaxNegInterval == 2

(***************************************************************************)
(* Characters and strings                                                  *)
(***************************************************************************)
Digits == <<"0", "1", "2", "3", "4", "5", "6", "7", "8", "9">>

\* Characters in code point order (what Python's string comparison uses).
AsciiOrder == <<".">> \o Digits \o <<"F", "P", "R", "_">> \o
              <<"a", "b", "c", "d", "e", "f", "g", "h", "i", "j", "k", "l", "m",
                "n", "o", "p", "q", "r", "s", "t", "u", "v", "w", "x", "y", "z">>

Ord(c) == CHOOSE i \in 1..Len(AsciiOrder) : AsciiOrder[i] = c

IsDigit(c) == \E i \in 1..Len(Digits) : Digits[i] = c

DigitVal(c) == (CHOOSE i \in 1..Len(Digits) : Digits[i] = c) - 1

\* int(s) for a non-empty string of decimal digits.
RECURSIVE ToInt(_)
ToInt(s) ==
    IF s = <<>> THEN 0
    ELSE ToInt(SubSeq(s, 1, Len(s) - 1)) * 10 + DigitVal(s[Len(s)])

StartsWithAt(s, i, p) ==
    /\ i + Len(p) - 1 <= Len(s)
    /\ SubSeq(s, i, i + Len(p) - 1) = p

\* a < b for str.
StrLess(a, b) ==
    \/ /\ Len(a) < Len(b)
       /\ SubSeq(b, 1, Len(a)) = a
    \/ \E i \in 1..Len(a) :
          /\ i <= Len(b)
          /\ SubSeq(a, 1, i - 1) = SubSeq(b, 1, i - 1)
          /\ Ord(a[i]) < Ord(b[i])

\* sorted(S) for a set of names.
RECURSIVE Sorted(_)
Sorted(S) ==
    IF S = {} THEN <<>>
    ELSE LET m == CHOOSE x \in S : \A y \in S : x = y \/ StrLess(x, y)
         IN  <<m>> \o Sorted(S \ {m})

\* Path.glob(prefix + '*' + suffix) over the names of a directory.
Glob(dir, prefix, suffix) ==
    {n \in dir : /\ Len(n) >= Len(prefix) + Len(suffix)
                 /\ StartsWithAt(n, 1, prefix)
                 /\ StartsWithAt(n, Len(n) - Len(suffix) + 1, suffix)}

\* Path.stem: the name without its last suffix.
Stem(n) ==
    LET dots == {i \in 2..(Len(n) - 1) : n[i] = "."}
    IN  IF dots = {} THEN n
        ELSE SubSeq(n, 1, (CHOOSE i \in dots : \A j \in dots : j <= i) - 1)

\* s.replace(old, ''): every non-overlapping occurrence, left to right.
RECURSIVE str_replace(_, _)
str_replace(s, old) ==
    IF s = <<>> THEN <<>>
    ELSE IF StartsWithAt(s, 1, old)
         THEN str_replace(SubSeq(s, Len(old) + 1, Len(s)), old)
         ELSE <<s[1]>> \o str_replace(SubSeq(s, 2, Len(s)), old)

(***************************************************************************)
(* File names                                                              *)
(***************************************************************************)
BatchTok == <<"_", "b", "a", "t", "c", "h">>
Jpg == <<".", "j", "p", "g">>
Png == <<".", "p", "n", "g">>
Curve == <<"_", "c", "u", "r", "v", "e">>
TrainBatch == <<"t", "r", "a", "i", "n">> \o BatchTok
Val == <<"v", "a", "l">>

ResultsPng == <<"r", "e", "s", "u", "l", "t", "s">> \o Png
ConfusionPng == <<"c", "o", "n", "f", "u", "s", "i", "o", "n", "_",
                  "m", "a", "t", "r", "i", "x">> \o Png
F1Png == <<"F", "1">> \o Curve \o Png
PRPng == <<"P", "R">> \o Curve \o Png
PPng == <<"P">> \o Curve \o Png
RPng == <<"R">> \o Curve \o Png
ResultsCsv == <<"r", "e", "s", "u", "l", "t", "s", ".", "c", "s", "v">>

\* Pieces a debug-sample name is built from, after "train_batch" or "val".
Pieces == {<<"1">>, <<"5">>, BatchTok \o <<"1">>}

RECURSIVE Middles(_)
Middles(n) ==
    IF n = 0 THEN {<<>>}
    ELSE LET shorter == Middles(n - 1)
         IN  shorter \cup {m \o p : m \in shorter, p \in Pieces}

SampleNames == {s \o m \o Jpg : s \in {TrainBatch, Val}, m \in Middles(MaxPieces)}

SampleDirs == {d \in SUBSET SampleNames : Cardinality(d) <= MaxFiles}

PlotDirs == SUBSET {ResultsPng, ConfusionPng, F1Png, PRPng, PPng, RPng, ResultsCsv}

\* The run directory of the specification's scenarios, and an empty one.
ScenarioDir == {TrainBatch \o <<"0">> \o Jpg, TrainBatch \o <<"5">> \o Jpg,
                Val \o <<"1">> \o Jpg, ResultsPng, PRPng}

ScenarioDirs == {{}, ScenarioDir, ScenarioDir \ {Val \o <<"1">> \o Jpg}}

(***************************************************************************)
(* Load-time availability guard and the exported mapping                   *)
(***************************************************************************)
\* Outcomes of the try block at load: everything imported and versioned; the
\* import raised ImportError (Task is never bound); the import worked but the
\* package has no __version__ (Task is bound, clearml is set to None).
Modes == {"ok", "import_failed", "no_version"}

Events == {"on_pretrain_routine_start", "on_model_save", "on_train_epoch_end",
           "on_fit_epoch_end", "on_val_end", "on_train_end"}

\* The global name Task is bound.
TaskBound == clearml # "import_failed"

callbacks_always == [ev \in Events |-> ev]

\* callbacks = {...} if clearml else {}
callbacks == IF clearml = "ok" THEN [ev \in Events |-> ev] ELSE [ev \in {} |-> ev]

(***************************************************************************)
(* Task.current_task().get_logger() / Task.current_task().update_...      *)
(***************************************************************************)
get_logger_lenient(bound, task) == "none"

\* The exception raised by evaluating the callee of a tracking call.
get_logger(bound, task) ==
    IF ~bound THEN "NameError"
    ELSE IF task = 0 THEN "AttributeError"
    ELSE "none"

(***************************************************************************)
(* _log_debug_samples                                                      *)
(***************************************************************************)
NoMatch == [start |-> 0, end |-> 0]

\* re.search(r'_batch(\d+)', name): leftmost match, digits taken greedily.
re_search(name) ==
    LET starts == {i \in 1..Len(name) :
                      /\ StartsWithAt(name, i, BatchTok)
                      /\ i + Len(BatchTok) <= Len(name)
                      /\ IsDigit(name[i + Len(BatchTok)])}
    IN  IF starts = {} THEN NoMatch
        ELSE LET i == CHOOSE x \in starts : \A y \in starts : x <= y
                 d == i + Len(BatchTok)
                 e == CHOOSE j \in d..Len(name) :
                         /\ \A k \in d..j : IsDigit(name[k])
                         /\ j = Len(name) \/ ~IsDigit(name[j + 1])
             IN  [start |-> i, end |-> e]

\* it.group()
group(name, it) == SubSeq(name, it.start, it.end)

\* int(it.groups()[0]) if it else 0
iteration_of(name, it) ==
    IF it # NoMatch THEN ToInt(SubSeq(name, it.start + Len(BatchTok), it.end)) ELSE 0

\* f.name.replace(it.group(), ''), reached only with a match
series_of(name, it) == str_replace(name, group(name, it))

RECURSIVE _log_debug_samples(_, _, _, _, _)
_log_debug_samples(files, title, dir, bound, task) ==
    IF files = <<>> THEN [calls |-> <<>>, raised |-> "none"]
    ELSE LET f == Head(files)
             it == re_search(f)
         IN  IF f \notin dir
             THEN _log_debug_samples(Tail(files), title, dir, bound, task)
             ELSE IF get_logger(bound, task) # "none"
             THEN [calls |-> <<>>, raised |-> get_logger(bound, task)]
             ELSE IF it = NoMatch
             THEN [calls |-> <<>>, raised |-> "AttributeError"]
             ELSE LET rest == _log_debug_samples(Tail(files), title, dir, bound, task)
                  IN  [calls |-> <<[op |-> "report_image",
                                    title |-> title,
                                    series |-> series_of(f, it),
                                    local_path |-> f,
                                    iteration |-> iteration_of(f, it)]>> \o rest.calls,
                       raised |-> rest.raised]

(***************************************************************************)
(* _log_plot and the pieces of the handlers                                *)
(***************************************************************************)
\* The call _log_plot makes once the image is decoded and drawn.
_log_plot(title, plot_path) ==
    [op |-> "report_matplotlib_figure", title |-> title, series |-> <<>>,
     figure |-> plot_path, report_interactive |-> FALSE]

PlotCandidates == <<ResultsPng, ConfusionPng, F1Png, PRPng, PPng, RPng>>

plot_files_unfiltered(dir) == PlotCandidates

\* files = [(save_dir / f) for f in files if (save_dir / f).exists()]
plot_files(dir) == SelectSeq(PlotCandidates, LAMBDA f : f \in dir)

report_single_value(k, v) == [op |-> "report_single_value", name |-> k, value |-> v]

train_end_calls_metrics_first(files, rd) ==
    [i \in 1..Len(rd) |-> report_single_value(rd[i].k, rd[i].v)] \o
    [i \in 1..Len(files) |-> _log_plot(Stem(files[i]), files[i])]

\* The calls of on_train_end, in the order of its two comprehensions.
train_end_calls(files, rd) ==
    [i \in 1..Len(files) |-> _log_plot(Stem(files[i]), files[i])] \o
    [i \in 1..Len(rd) |-> report_single_value(rd[i].k, rd[i].v)]

model_info == <<"Parameters", "GFLOPs", "Inference speed (ms/img)">>

model_info_due_first_two(e) == e <= 1

\* if trainer.epoch == 0
model_info_due(e) == e = 0

\* a % b of Python for b # 0 (the result has the sign of b).
PyMod(a, b) == IF b > 0 THEN a % b ELSE 0 - ((0 - a) % (0 - b))

save_due_off_by_one(e, si) == PyMod(e + 1, si) = 0

\* if trainer.epoch % trainer.args.save_interval == 0, for save_interval # 0
save_due(e, si) == PyMod(e, si) = 0

update_output_model(path, name) ==
    [op |-> "update_output_model", model_path |-> path, model_name |-> name,
     auto_delete_file |-> FALSE]

(***************************************************************************)
(* Inputs read from the trainer                                            *)
(***************************************************************************)
SaveIntervals == (0 - MaxNegInterval)..MaxInterval

\* trainer.args.project: "" stands for a falsy value (None or empty).
Projects == {"", "runs"}

MetricNames == {"metrics/mAP50(B)", "fitness"}
MetricValues == {0, 1}
MetricItems == [k : MetricNames, v : MetricValues]

\* results_dict as its items in insertion order (keys are distinct).
ResultsDicts ==
    {<<>>} \cup {<<a>> : a \in MetricItems}
           \cup {p \in MetricItems \X MetricItems : p[1].k # p[2].k}

(***************************************************************************)
(* Handlers                                                                *)
(***************************************************************************)
\* The host fires on_fit_epoch_end once per epoch.
Fires(ev) ==
    /\ ev = "on_fit_epoch_end" => ~fit_done
    /\ fit_done' = (fit_done \/ ev = "on_fit_epoch_end")

\* What an invocation leaves behind for the host: the calls that reached the
\* tracking client and the exception that propagated, if any.
Return(name, c, r) ==
    /\ handler' = name
    /\ ran' = TRUE
    /\ entry_task' = current_task
    /\ calls' = c
    /\ raised' = r

Task_init(project) ==
    [op |-> "Task.init",
     project_name |-> IF project # "" THEN project ELSE "YOLOv8",
     tags |-> <<"YOLOv8">>, output_uri |-> TRUE, reuse_last_task_id |-> FALSE,
     auto_connect_frameworks |-> [pytorch |-> FALSE, matplotlib |-> FALSE]]

set_base_docker == [op |-> "set_base_docker", image |-> "ultralytics/ultralytics:latest"]

connect == [op |-> "connect", name |-> "General"]

\* The tracking client decides what Task.init returns and whether it or a later
\* configuration call raises: fail is the call that raises, ret tells whether
\* the client hands back a new session or the one already current.
on_pretrain_routine_start(v) ==
    /\ Fires("on_pretrain_routine_start")
    /\ via' = v
    /\ \E project \in Projects,
          fail \in {"none", "Task.init", "set_base_docker", "connect"},
          ret \in {"new", "current"} :
          IF ~TaskBound
          THEN /\ Return("on_pretrain_routine_start", <<>>, "NameError")
               /\ UNCHANGED <<current_task, tasks>>
          ELSE IF fail = "Task.init"
          THEN /\ Return("on_pretrain_routine_start", <<>>, "Exception")
               /\ UNCHANGED <<current_task, tasks>>
          ELSE /\ IF ret = "current"
                  THEN /\ current_task # 0
                       /\ UNCHANGED <<current_task, tasks>>
                  ELSE /\ tasks < MaxTasks
                       /\ tasks' = tasks + 1
                       /\ current_task' = tasks + 1
               /\ IF fail = "set_base_docker"
                  THEN Return("on_pretrain_routine_start",
                              <<Task_init(project)>>, "Exception")
                  ELSE IF fail = "connect"
                  THEN Return("on_pretrain_routine_start",
                              <<Task_init(project), set_base_docker>>, "Exception")
                  ELSE Return("on_pretrain_routine_start",
                              <<Task_init(project), set_base_docker, connect>>, "none")
    /\ save_interval' = 1
    /\ results_dict' = <<>>
    /\ UNCHANGED <<clearml, epoch, reported, save_dir>>

on_train_epoch_end(v) ==
    /\ Fires("on_train_epoch_end")
    /\ via' = v
    /\ IF epoch = 1
       THEN LET r == _log_debug_samples(Sorted(Glob(save_dir, TrainBatch, Jpg)),
                                        "Mosaic", save_dir, TaskBound, current_task)
            IN  Return("on_train_epoch_end", r.calls, r.raised)
       ELSE Return("on_train_epoch_end", <<>>, "none")
    /\ save_interval' = 1
    /\ results_dict' = <<>>
    /\ UNCHANGED <<clearml, current_task, tasks, epoch, reported, save_dir>>

on_fit_epoch_end(v) ==
    /\ Fires("on_fit_epoch_end")
    /\ via' = v
    /\ IF ~model_info_due(epoch)
       THEN /\ Return("on_fit_epoch_end", <<>>, "none")
            /\ UNCHANGED reported
       ELSE IF get_logger(TaskBound, current_task) # "none"
       THEN /\ Return("on_fit_epoch_end", <<>>, get_logger(TaskBound, current_task))
            /\ UNCHANGED reported
       ELSE /\ Return("on_fit_epoch_end",
                      [i \in 1..Len(model_info) |->
                          [op |-> "report_single_value", name |-> model_info[i]]],
                      "none")
            /\ reported' = [k \in DOMAIN reported |-> Append(reported[k], epoch)]
    /\ save_interval' = 1
    /\ results_dict' = <<>>
    /\ UNCHANGED <<clearml, current_task, tasks, epoch, save_dir>>

on_val_end(v) ==
    /\ Fires("on_val_end")
    /\ via' = v
    /\ LET r == _log_debug_samples(Sorted(Glob(save_dir, Val, Jpg)),
                                   "Validation", save_dir, TaskBound, current_task)
       IN  Return("on_val_end", r.calls, r.raised)
    /\ save_interval' = 1
    /\ results_dict' = <<>>
    /\ UNCHANGED <<clearml, current_task, tasks, epoch, reported, save_dir>>

on_train_end(v) ==
    /\ Fires("on_train_end")
    /\ via' = v
    /\ \E rd \in ResultsDicts :
          /\ results_dict' = rd
          /\ LET files == plot_files(save_dir)
                 c == train_end_calls(files, rd)
             IN  IF c = <<>>
                 THEN Return("on_train_end", <<>>, "none")
                 ELSE IF get_logger(TaskBound, current_task) # "none"
                 THEN Return("on_train_end", <<>>, get_logger(TaskBound, current_task))
                 ELSE Return("on_train_end", c, "none")
    /\ save_interval' = 1
    /\ UNCHANGED <<clearml, current_task, tasks, epoch, reported, save_dir>>

on_model_save(v) ==
    /\ Fires("on_model_save")
    /\ via' = v
    /\ \E si \in SaveIntervals :
          /\ save_interval' = si
          /\ IF si = 0
             THEN Return("on_model_save", <<>>, "ZeroDivisionError")
             ELSE IF ~save_due(epoch, si)
             THEN Return("on_model_save", <<>>, "none")
             ELSE IF get_logger(TaskBound, current_task) # "none"
             THEN Return("on_model_save", <<>>, get_logger(TaskBound, current_task))
             ELSE Return("on_model_save", <<update_output_model("last", "last_name")>>, "none")
    /\ results_dict' = <<>>
    /\ UNCHANGED <<clearml, current_task, tasks, epoch, reported, save_dir>>

(***************************************************************************)
(* The host training loop                                                  *)
(***************************************************************************)
Handler(ev, v) ==
    CASE ev = "on_pretrain_routine_start" -> on_pretrain_routine_start(v)
      [] ev = "on_model_save" -> on_model_save(v)
      [] ev = "on_train_epoch_end" -> on_train_epoch_end(v)
      [] ev = "on_fit_epoch_end" -> on_fit_epoch_end(v)
      [] ev = "on_val_end" -> on_val_end(v)
      [] ev = "on_train_end" -> on_train_end(v)

\* An event for which the mapping holds no handler: nothing is called.
Skip(ev) ==
    /\ Fires(ev)
    /\ via' = "callbacks"
    /\ handler' = ev
    /\ ran' = FALSE
    /\ entry_task' = current_task
    /\ calls' = <<>>
    /\ raised' = "none"
    /\ save_interval' = 1
    /\ results_dict' = <<>>
    /\ UNCHANGED <<clearml, current_task, tasks, epoch, reported, save_dir>>

\* The host runs the handlers the exported mapping registers for an event.
run_callbacks ==
    \E ev \in Events :
        IF ev \in DOMAIN callbacks THEN Handler(callbacks[ev], "callbacks") ELSE Skip(ev)

\* The host moves to the next epoch.
NextEpoch ==
    /\ epoch < MaxEpoch
    /\ epoch' = epoch + 1
    /\ fit_done' = FALSE
    /\ handler' = "none"
    /\ via' = "none"
    /\ ran' = FALSE
    /\ entry_task' = 0
    /\ calls' = <<>>
    /\ raised' = "none"
    /\ save_interval' = 1
    /\ results_dict' = <<>>
    /\ UNCHANGED <<clearml, current_task, tasks, reported, save_dir>>

(***************************************************************************)
(* Specifications                                                          *)
(***************************************************************************)
Loaded ==
    /\ current_task = 0
    /\ tasks = 0
    /\ epoch = 0
    /\ fit_done = FALSE
    /\ reported = [i \in {model_info[j] : j \in 1..Len(model_info)} |-> <<>>]
    /\ handler = "none"
    /\ via = "none"
    /\ ran = FALSE
    /\ entry_task = 0
    /\ save_interval = 1
    /\ results_dict = <<>>
    /\ calls = <<>>
    /\ raised = "none"

\* The module is loaded, with any outcome of the import guard.
Init ==
    /\ clearml \in Modes
    /\ save_dir \in ScenarioDirs
    /\ Loaded

Next ==
    \/ run_callbacks
    \/ on_pretrain_routine_start("direct")
    \/ on_train_epoch_end("direct")
    \/ on_fit_epoch_end("direct")
    \/ on_val_end("direct")
    \/ on_model_save("direct")
    \/ on_train_end("direct")
    \/ NextEpoch

Spec == Init /\ [][Next]_vars

\* Debug-sample logging over every bounded run directory of sample images.
InitSamples ==
    /\ clearml = "ok"
    /\ save_dir \in SampleDirs
    /\ Loaded

NextSamples ==
    \/ on_pretrain_routine_start("direct")
    \/ on_train_epoch_end("direct")
    \/ on_val_end("direct")
    \/ NextEpoch

SpecSamples == InitSamples /\ [][NextSamples]_vars

\* The final report over every set of plot files in the run directory.
InitPlots ==
    /\ clearml = "ok"
    /\ save_dir \in PlotDirs
    /\ Loaded

NextPlots ==
    \/ on_pretrain_routine_start("direct")
    \/ on_train_end("direct")

SpecPlots == InitPlots /\ [][NextPlots]_vars

(***************************************************************************)
(* Properties                                                              *)
(***************************************************************************)
\* The last invocation ran its body with Task bound and a session current.
InSession == ran /\ TaskBound /\ entry_task # 0

\* The files the last debug-sample handler passed to _log_debug_samples.
PassedSamples ==
    IF handler = "on_val_end" THEN Glob(save_dir, Val, Jpg)
    ELSE IF handler = "on_train_epoch_end" /\ epoch = 1 THEN Glob(save_dir, TrainBatch, Jpg)
    ELSE {}

ReportsOf(f) == {i \in DOMAIN calls : calls[i].op = "report_image" /\ calls[i].local_path = f}

\* C1: every existing file passed to debug-sample logging gets exactly one
\* image report, with iteration N for a name holding a _batch<N> token and
\* iteration 0 for a name without one.
C1_OneReportPerSample ==
    (handler \in {"on_val_end", "on_train_epoch_end"} /\ InSession) =>
        \A f \in PassedSamples \cap save_dir :
            /\ Cardinality(ReportsOf(f)) = 1
            /\ \A i \in ReportsOf(f) :
                  /\ calls[i].title = (IF handler = "on_val_end" THEN "Validation" ELSE "Mosaic")
                  /\ calls[i].iteration = iteration_of(f, re_search(f))

\* C2: a second on_pretrain_routine_start without teardown reuses the session
\* that is current: no Task.init call, no second session.
C2_SecondStartReusesSession ==
    (handler = "on_pretrain_routine_start" /\ InSession /\ raised = "none") =>
        /\ current_task = entry_task
        /\ tasks = 1
        /\ \A i \in DOMAIN calls : calls[i].op # "Task.init"

Untouched == calls = <<>> /\ raised = "none" /\ current_task = entry_task

\* C3 as stated: with the dependency unavailable the mapping is empty and
\* every invocation of a handler is a no-op that raises nothing and leaves the
\* session state alone.
C3_HandlersAreNoOps ==
    clearml # "ok" =>
        /\ DOMAIN callbacks = {}
        /\ handler # "none" => (Untouched /\ tasks = 0)

\* C3 amended: with the dependency unavailable the mapping is empty, so an
\* event dispatched through the mapping runs no handler, makes no tracking
\* call, raises nothing and leaves the session state alone; the availability
\* decided at load never changes. A handler called directly is not guarded:
\* on_pretrain_routine_start raises NameError when the import failed.
C3_EmptyMappingDisablesDispatch ==
    /\ [](clearml # "ok" =>
            /\ DOMAIN callbacks = {}
            /\ via = "callbacks" => (~ran /\ Untouched)
            /\ (clearml = "import_failed" /\ via = "direct"
                  /\ handler = "on_pretrain_routine_start") => raised = "NameError")
    /\ [][/\ clearml' = clearml
          /\ (clearml # "ok" /\ via' = "callbacks") =>
                UNCHANGED <<current_task, tasks, reported>>]_vars

C3_Witness ==
    /\ clearml # "ok"
    /\ via = "callbacks"
    /\ handler = "on_pretrain_routine_start"
    /\ ~ran

\* C4: an error raised while creating or configuring the session never leaves
\* on_pretrain_routine_start.
C4_StartErrorsAreCaught ==
    (clearml = "ok" /\ handler = "on_pretrain_routine_start" /\ ran) => raised = "none"

ModelInfoReports ==
    [i \in 1..Len(model_info) |-> [op |-> "report_single_value", name |-> model_info[i]]]

\* C5: over a run with one on_fit_epoch_end per epoch, each of the three
\* model-characterization values is reported once, by the epoch-0 invocation
\* (made with a session current), and at no other epoch.
C5_ModelInfoOnceAtEpochZero ==
    /\ \A k \in DOMAIN reported : reported[k] \in {<<>>, <<0>>}
    /\ (handler = "on_fit_epoch_end" /\ InSession /\ epoch = 0) =>
          /\ calls = ModelInfoReports
          /\ \A k \in DOMAIN reported : reported[k] = <<0>>
    /\ (handler = "on_fit_epoch_end" /\ ran /\ epoch # 0) => calls = <<>>

C5_Witness ==
    /\ handler = "on_fit_epoch_end"
    /\ InSession
    /\ epoch >= 2
    /\ calls = <<>>
    /\ \A k \in DOMAIN reported : reported[k] = <<0>>

\* e is a multiple of s.
IsMultiple(e, s) == \E k \in (0 - e)..e : e = k * s

LastUpload == <<update_output_model("last", "last_name")>>

\* C6 as stated: for every save_interval, on_model_save uploads the "last"
\* checkpoint (local copy kept) exactly when the epoch is a multiple of
\* save_interval and does nothing otherwise.
C6_UploadAtMultiples ==
    (handler = "on_model_save" /\ InSession) =>
        /\ raised = "none"
        /\ calls = (IF IsMultiple(epoch, save_interval) THEN LastUpload ELSE <<>>)

\* C6 amended: the same for every save_interval other than 0; with
\* save_interval = 0 the handler raises ZeroDivisionError and uploads nothing.
C6_UploadAtMultiplesOfNonzero ==
    /\ (handler = "on_model_save" /\ InSession /\ save_interval # 0) =>
          /\ raised = "none"
          /\ calls = (IF IsMultiple(epoch, save_interval) THEN LastUpload ELSE <<>>)
    /\ (handler = "on_model_save" /\ ran /\ save_interval = 0) =>
          /\ raised = "ZeroDivisionError"
          /\ calls = <<>>

C6_Witness ==
    /\ handler = "on_model_save"
    /\ InSession
    /\ save_interval = 5
    /\ epoch = 5
    /\ calls = LastUpload

WellKnownPlots == {ResultsPng, ConfusionPng, F1Png, PRPng, PPng, RPng}

PresentPlots == WellKnownPlots \cap save_dir

PlotCalls == {i \in DOMAIN calls : calls[i].op = "report_matplotlib_figure"}

MetricCalls == {i \in DOMAIN calls : calls[i].op = "report_single_value"}

\* Plots first, then the metrics in the order of the mapping.
PlotsThenMetrics ==
    /\ PlotCalls = 1..Cardinality(PresentPlots)
    /\ MetricCalls = (Cardinality(PresentPlots) + 1)..(Cardinality(PresentPlots) + Len(results_dict))
    /\ \A i \in 1..Len(results_dict) :
          /\ calls[Cardinality(PresentPlots) + i].name = results_dict[i].k
          /\ calls[Cardinality(PresentPlots) + i].value = results_dict[i].v

\* C7 as stated: on_train_end uploads the plots, then reports one single
\* value per final metric, and finally uploads the best checkpoint, keeping
\* the local file.
C7_EndsWithBestUpload ==
    (handler = "on_train_end" /\ InSession) =>
        /\ raised = "none"
        /\ PlotsThenMetrics
        /\ Len(calls) = Cardinality(PresentPlots) + Len(results_dict) + 1
        /\ calls[Len(calls)].op = "update_output_model"
        /\ calls[Len(calls)].model_path = "best"
        /\ calls[Len(calls)].auto_delete_file = FALSE

\* C7 amended: on_train_end uploads the plots, then reports one single value
\* per final metric, and makes no other call: it uploads no checkpoint.
C7_PlotsThenMetricsOnly ==
    (handler = "on_train_end" /\ InSession) =>
        /\ raised = "none"
        /\ PlotsThenMetrics
        /\ Len(calls) = Cardinality(PresentPlots) + Len(results_dict)

C7_Witness ==
    /\ handler = "on_train_end"
    /\ InSession
    /\ Cardinality(PresentPlots) >= 2
    /\ Len(results_dict) = 2
    /\ Len(calls) >= 4

\* C8: the series of a debug sample is its file name with the first matched
\* _batch<N> occurrence deleted and every other character kept.
C8_SeriesDropsFirstTokenOnly ==
    \A i \in DOMAIN calls :
        calls[i].op = "report_image" =>
            LET f == calls[i].local_path
                it == re_search(f)
            IN  calls[i].series = SubSeq(f, 1, it.start - 1) \o SubSeq(f, it.end + 1, Len(f))

\* The name without its four-character ".png" ending.
Title(f) == SubSeq(f, 1, Len(f) - 4)

\* C9: on_train_end uploads exactly one plot per well-known plot file present
\* in the run directory, titled with the file's stem, and no other plot.
C9_OnePlotPerPresentFile ==
    (handler = "on_train_end" /\ InSession) =>
        /\ \A f \in PresentPlots :
              Cardinality({i \in PlotCalls : calls[i].title = Title(f)
                                             /\ calls[i].figure = f}) = 1
        /\ Cardinality(PlotCalls) = Cardinality(PresentPlots)

C9_Witness ==
    /\ handler = "on_train_end"
    /\ InSession
    /\ PresentPlots = {ResultsPng, PRPng}
    /\ ResultsCsv \in save_dir
    /\ Cardinality(PlotCalls) = 2
    /\ calls[1].title = <<"r", "e", "s", "u", "l", "t", "s">>
    /\ calls[2].title = <<"P", "R", "_", "c", "u", "r", "v", "e">>

LoggingHandlers == Events \ {"on_pretrain_routine_start"}

\* The last invocation had something to log.
SomethingToLog ==
    CASE handler = "on_train_epoch_end" -> epoch = 1 /\ Glob(save_dir, TrainBatch, Jpg) # {}
      [] handler = "on_fit_epoch_end" -> epoch = 0
      [] handler = "on_val_end" -> Glob(save_dir, Val, Jpg) # {}
      [] handler = "on_model_save" -> save_interval # 0 /\ IsMultiple(epoch, save_interval)
      [] handler = "on_train_end" -> PresentPlots # {} \/ results_dict # <<>>
      [] OTHER -> FALSE

====
